---- MODULE Spec2Model ----
(***************************************************************************)
(* Glyph layout of cairosvg/surface/text.py: the path measurer             *)
(* (path_length, point_following_path), the explicit layout (text) and the *)
(* layout along a path (text_path), over integer coordinates.              *)
(*                                                                         *)
(* Optional values (Python's None) are sequences: <<>> is None, a point is *)
(* <<x, y>>, an optional number is <<v>>.  Angles are kept as the reduced  *)
(* direction <<dx, dy>> whose atan2 they are, so that cos and sin are      *)
(* exact on the axis-aligned segments of the flattened paths used here.    *)
(***************************************************************************)
EXTENDS Integers, Sequences, FiniteSets, TLC

VARIABLES
    cursor_position,  \* surface.cursor_position, <<x, y>>
    total_width,      \* surface.total_width
    context,          \* surface.context: [stack: saved matrices, matrix: current,
                      \* font: the font face selected]
    pc,               \* "idle", "text", "text_path", "done", "fault"
    node,             \* the node being drawn
    local,            \* the running handler's local variables
    i,                \* index in node.text of the next letter of the loop
    glyphs,           \* glyphs handed to the context by the running handler
    queries,          \* point_following_path calls of the running handler
    entry,            \* surface state when the running handler was entered
    runs,             \* handlers entered so far
    measure           \* the measurer's input and results (SpecMeasure)

vars == <<cursor_position, total_width, context, pc, node, local, i, glyphs,
          queries, entry, runs, measure>>
surfaceVars == <<cursor_position, total_width, context>>
callVars == <<pc, node, local, i, glyphs, queries, entry, runs>>

(***************************************************************************)
(* Bounds of the model.                                                    *)
(***************************************************************************)
MaxLen == 3
MaxRuns == 2
MaxTextRuns == 1
MaxItems == 3
MaxWidth == 25

None == <<>>
Abs(n) == IF n < 0 THEN -n ELSE n
Last(s) == s[Len(s)]
Front(s) == SubSeq(s, 1, Len(s) - 1)

RECURSIVE Gcd(_, _)
Gcd(a, b) == IF b = 0 THEN a ELSE Gcd(b, a % b)

(***************************************************************************)
(* helpers.distance: the Euclidean norm, exact on the segments used here   *)
(* (integer square root of the squared norm).                              *)
(***************************************************************************)
Distance(x1, y1, x2, y2) ==
    LET sq == (x2 - x1) * (x2 - x1) + (y2 - y1) * (y2 - y1)
    IN  CHOOSE r \in 0..(Abs(x2 - x1) + Abs(y2 - y1)) :
            r * r <= sq /\ (r + 1) * (r + 1) > sq

(***************************************************************************)
(* helpers.point_angle: atan2(y2 - y1, x2 - x1), kept as the reduced       *)
(* direction; atan2(0, 0) = 0 is the direction <<1, 0>>.                   *)
(***************************************************************************)
PointAngle(x1, y1, x2, y2) ==
    LET dx == x2 - x1
        dy == y2 - y1
        g == Gcd(Abs(dx), Abs(dy))
    IN  IF g = 0 THEN <<1, 0>> ELSE <<dx \div g, dy \div g>>

\* math.cos(angle) * length and math.sin(angle) * length, on an axis direction
CosTimes(angle, length) == angle[1] * length
SinTimes(angle, length) == angle[2] * length

\* math.radians, in milliradians
Radians(deg) == (deg * 31416) \div 1800

(***************************************************************************)
(* A flattened path: a sequence of items [type, point], type "M"           *)
(* (cairo.PATH_MOVE_TO) or "L" (cairo.PATH_LINE_TO).                       *)
(***************************************************************************)
PathMoveTo(x, y) == [type |-> "M", point |-> <<x, y>>]
PathLineTo(x, y) == [type |-> "L", point |-> <<x, y>>]

\* path_length with "total_length = length" in place of "total_length += length"
PathLengthStepAssign(st, item) ==
    IF item.type = "M"
    THEN [st EXCEPT !.old = item.point]
    ELSE IF item.type = "L"
    THEN LET length == Distance(st.old[1], st.old[2], item.point[1], item.point[2])
         IN  [total |-> length, old |-> item.point]
    ELSE st

\* path_length: one iteration of the loop, on the state [total, old]
PathLengthStep(st, item) ==
    IF item.type = "M"
    THEN [st EXCEPT !.old = item.point]
    ELSE IF item.type = "L"
    THEN LET length == Distance(st.old[1], st.old[2], item.point[1], item.point[2])
         IN  [total |-> st.total + length, old |-> item.point]
    ELSE st

RECURSIVE PathLengthLoop(_, _, _)
PathLengthLoop(path, k, st) ==
    IF k > Len(path) THEN st.total
    ELSE PathLengthLoop(path, k + 1, PathLengthStep(st, path[k]))

PathLength(path) == PathLengthLoop(path, 1, [total |-> 0, old |-> None])

\* point_following_path with "<=" in place of "<"
KeepsWalkingLeq(total_length, width) == total_length <= width

\* point_following_path: the comparison that keeps walking
KeepsWalking(total_length, width) == total_length < width

\* point_following_path: the point returned inside the segment old -> new
PointOnSegment(old, new, length, total_length, width) ==
    LET len == length - (total_length - width)
        angle == PointAngle(old[1], old[2], new[1], new[2])
    IN  <<CosTimes(angle, len) + old[1], SinTimes(angle, len) + old[2]>>

RECURSIVE PointFollowingLoop(_, _, _, _)
PointFollowingLoop(path, width, k, st) ==
    IF k > Len(path) THEN None
    ELSE LET item == path[k]
         IN  IF item.type = "M"
             THEN PointFollowingLoop(path, width, k + 1, [st EXCEPT !.old = item.point])
             ELSE IF item.type = "L"
             THEN LET length == Distance(st.old[1], st.old[2],
                                         item.point[1], item.point[2])
                      total == st.total + length
                  IN  IF KeepsWalking(total, width)
                      THEN PointFollowingLoop(path, width, k + 1,
                                              [total |-> total, old |-> item.point])
                      ELSE PointOnSegment(st.old, item.point, length, total, width)
             ELSE PointFollowingLoop(path, width, k + 1, st)

PointFollowingPath(path, width) ==
    PointFollowingLoop(path, width, 1, [total |-> 0, old |-> None])

(***************************************************************************)
(* The measurer on its own: a flattened path and a distance are drawn,     *)
(* then path_length and point_following_path are applied to them.          *)
(***************************************************************************)
GridPoints == {<<x, y>> : x \in {0, 4, 10}, y \in {0, 10}}
PathItems == [type : {"M", "L"}, point : GridPoints]

\* what cairo's copy_path_flat hands over here: a MoveTo first, and every
\* LineTo axis-aligned from the point before it
IsFlatPath(p) ==
    /\ Len(p) > 0 => p[1].type = "M"
    /\ \A k \in 2..Len(p) :
           p[k].type = "L" =>
               \/ p[k].point[1] = p[k - 1].point[1]
               \/ p[k].point[2] = p[k - 1].point[2]

MeasuredPaths ==
    UNION {{p \in [1..n -> PathItems] : IsFlatPath(p)} : n \in 0..MaxItems}

MeasureOff == [pc |-> "off", path |-> <<>>, width |-> 0, length |-> None, point |-> None]

InitMeasure ==
    /\ cursor_position = <<0, 0>>
    /\ total_width = 0
    /\ context = [stack |-> <<>>, matrix |-> <<>>, font |-> None]
    /\ pc = "idle"
    /\ node = None
    /\ local = None
    /\ i = 0
    /\ glyphs = <<>>
    /\ queries = <<>>
    /\ entry = None
    /\ runs = 0
    /\ \E p \in MeasuredPaths, w \in 0..MaxWidth :
           measure = [pc |-> "input", path |-> p, width |-> w,
                      length |-> None, point |-> None]

MeasureLength ==
    /\ measure.pc = "input"
    /\ measure' = [measure EXCEPT !.pc = "length",
                                  !.length = <<PathLength(measure.path)>>]
    /\ UNCHANGED <<surfaceVars, callVars>>

MeasurePoint ==
    /\ measure.pc = "length"
    /\ measure' = [measure EXCEPT !.pc = "point",
                                  !.point = PointFollowingPath(measure.path, measure.width)]
    /\ UNCHANGED <<surfaceVars, callVars>>

NextMeasure == MeasureLength \/ MeasurePoint

SpecMeasure == InitMeasure /\ [][NextMeasure]_vars

(***************************************************************************)
(* The segments of a flattened path, stated apart from the measurer: item  *)
(* k is a segment when it is a LineTo, from the point of the item before   *)
(* it; its length is the coordinate difference (the segments are           *)
(* axis-aligned).                                                          *)
(***************************************************************************)
IsSegment(p, k) == k \in 2..Len(p) /\ p[k].type = "L"
SegmentLength(p, k) ==
    Abs(p[k].point[1] - p[k - 1].point[1]) + Abs(p[k].point[2] - p[k - 1].point[2])

RECURSIVE LengthUpTo(_, _)
LengthUpTo(p, k) ==
    IF k < 2 THEN 0
    ELSE LengthUpTo(p, k - 1) + (IF IsSegment(p, k) THEN SegmentLength(p, k) ELSE 0)

\* q lies on segment k, at distance d from its start
OnSegmentAt(p, k, q, d) ==
    LET a == p[k - 1].point
        b == p[k].point
    IN  /\ Len(q) = 2
        /\ \A c \in 1..2 : (a[c] <= q[c] /\ q[c] <= b[c]) \/ (b[c] <= q[c] /\ q[c] <= a[c])
        /\ Abs(q[1] - a[1]) + Abs(q[2] - a[2]) = d

\* segment k is the first at which the running length reaches d
FirstReaching(p, k, d) ==
    /\ IsSegment(p, k)
    /\ LengthUpTo(p, k) >= d
    /\ \A j \in 2..(k - 1) : IsSegment(p, j) => LengthUpTo(p, j) < d

HasLineTo(p) == \E k \in 1..Len(p) : IsSegment(p, k)
CornerPath == <<PathMoveTo(0, 0), PathLineTo(10, 0), PathLineTo(10, 10)>>

\* C4: on a path that starts with a MoveTo and has a LineTo, and for a
\* distance d with 0 <= d <= totalLength, point_following_path returns the
\* point of the first segment at which the running length reaches or exceeds
\* d, at distance d minus the length before that segment from the segment's
\* start; path_length is the sum of the segments' lengths.  On
\* MoveTo(0,0) LineTo(10,0) LineTo(10,10): length 20, (5,0) at 5, (10,5) at 15.
C4_PointOnFirstReachingSegment ==
    LET p == measure.path
        d == measure.width
    IN  /\ measure.pc \in {"length", "point"} =>
               measure.length = <<LengthUpTo(p, Len(p))>>
        /\ (measure.pc = "point" /\ HasLineTo(p) /\ d <= LengthUpTo(p, Len(p))) =>
               \E k \in 2..Len(p) :
                   /\ FirstReaching(p, k, d)
                   /\ OnSegmentAt(p, k, measure.point, d - LengthUpTo(p, k - 1))
        /\ (measure.pc = "point" /\ p = CornerPath) =>
               /\ measure.length = <<20>>
               /\ d = 5 => measure.point = <<5, 0>>
               /\ d = 15 => measure.point = <<10, 5>>

\* C4 witness: the corner path measured at 15, past its first segment
C4_Witness ==
    /\ measure.pc = "point"
    /\ measure.path = CornerPath
    /\ measure.width = 15
    /\ measure.point = <<10, 5>>

\* C5: for a distance greater than path_length(path), point_following_path
\* returns None; a path that is a single MoveTo has length 0 and no point at
\* any positive distance.
C5_NoneBeyondLength ==
    measure.pc = "point" =>
        /\ measure.width > measure.length[1] => measure.point = None
        /\ (Len(measure.path) = 1 /\ measure.width > 0) =>
               measure.length = <<0>> /\ measure.point = None

\* C5 witness: a path with segments measured past its end
C5_Witness ==
    /\ measure.pc = "point"
    /\ HasLineTo(measure.path)
    /\ measure.length[1] > 0
    /\ measure.width > measure.length[1]
    /\ measure.point = None

(***************************************************************************)
(* The collaborators of text and text_path, as stubs: the cairo context    *)
(* (a stack of saved matrices and the current matrix, kept as the list of  *)
(* transformations applied), the font metrics of a two-letter font, and    *)
(* units.size.                                                             *)
(***************************************************************************)
Save(ctx) == [ctx EXCEPT !.stack = Append(ctx.stack, ctx.matrix)]
Restore(ctx) == [ctx EXCEPT !.stack = Front(ctx.stack), !.matrix = Last(ctx.stack)]
Rotate(ctx, angle) == [ctx EXCEPT !.matrix = Append(ctx.matrix, <<"rotate", angle>>)]
Translate(ctx, x, y) == [ctx EXCEPT !.matrix = Append(ctx.matrix, <<"translate", x, y>>)]

Letters == {"a", "b"}
LetterExtents(letter) ==
    IF letter = "a"
    THEN [x_bearing |-> 0, width |-> 2, x_advance |-> 1, y_advance |-> 0]
    ELSE [x_bearing |-> 1, width |-> 4, x_advance |-> 4, y_advance |-> 1]

RECURSIVE TextExtentsFrom(_, _)
TextExtentsFrom(string, k) ==
    IF k > Len(string)
    THEN [x_bearing |-> 0, width |-> 0, x_advance |-> 0, y_advance |-> 0]
    ELSE LET e == LetterExtents(string[k])
             rest == TextExtentsFrom(string, k + 1)
         IN  [x_bearing |-> e.x_bearing,
              width |-> e.width + rest.width,
              x_advance |-> e.x_advance + rest.x_advance,
              y_advance |-> e.y_advance + rest.y_advance]

\* context.text_extents(string): fields 0, 2, 4 and 5 of cairo's tuple
TextExtents(string) == TextExtentsFrom(string, 1)

\* units.size: None and 0 give 0, <<v>> is v user units, <<p, "%">> is p
\* percent of the reference
Size(string, reference) ==
    IF string = None THEN 0
    ELSE IF Len(string) = 2 THEN (string[1] * reference) \div 100
    ELSE string[1]

\* float(node.get("rotate", 0))
FloatOr0(string) == IF string = None THEN 0 ELSE string[1]

\* the texts drawn: the prefixes of "abab..." and of "baba..."
Word(first, n) ==
    [k \in 1..n |-> IF k % 2 = 1 THEN first ELSE CHOOSE l \in Letters : l # first]
Texts == {Word(first, n) : first \in Letters, n \in 0..MaxLen}

(***************************************************************************)
(* text(surface, node).  An attribute list of the node is the sequence of  *)
(* its resolved values; <<>> stands for an attribute the node does not     *)
(* have.                                                                   *)
(***************************************************************************)
\* the nodes drawn: every combination of the layout attributes with the
\* default font, and every combination of the keyword attributes font-style,
\* font-weight (<<>> for an absent attribute, <<value>> otherwise) and
\* text-anchor ("none" for an absent one) with one layout
TextNodes ==
    [text : Texts,
     x : {<<>>, <<1, 5>>},
     y : {<<>>, <<2>>},
     dx : {<<>>, <<1, 2>>},
     dy : {<<>>, <<1>>},
     rotate : {<<>>, <<10, 20>>},
     anchor : {"start", "middle", "end"},
     font_style : {None},
     font_weight : {None}]
    \cup
    [text : {<<>>, <<"a">>},
     x : {<<1, 5>>},
     y : {<<>>},
     dx : {<<>>},
     dy : {<<>>},
     rotate : {<<>>},
     anchor : {"none", "justify"},
     font_style : {None, <<"normal">>, <<"italic">>, <<"Oblique">>, <<"bogus">>},
     font_weight : {None, <<"bold">>, <<"700">>, <<"italic">>}]

\* "%s" % value, and str.upper() on the values drawn
Format(value) == IF value = None THEN "None" ELSE value[1]
Upper(string) ==
    CASE string = "None" -> "NONE"
      [] string = "normal" -> "NORMAL"
      [] string = "italic" -> "ITALIC"
      [] string = "Oblique" -> "OBLIQUE"
      [] string = "bold" -> "BOLD"
      [] string = "bogus" -> "BOGUS"
      [] string = "700" -> "700"

\* the font constants of the cairo module, each named <<prefix, suffix>>
CairoFontNames ==
    {<<"FONT_SLANT", "NORMAL">>, <<"FONT_SLANT", "ITALIC">>, <<"FONT_SLANT", "OBLIQUE">>,
     <<"FONT_WEIGHT", "NORMAL">>, <<"FONT_WEIGHT", "BOLD">>}

\* getattr(cairo, name, default)
GetAttr(name, default) == IF name \in CairoFontNames THEN name ELSE default

\* lines 80-82 with "font_weight_%s" in place of "font_slant_%s"
FontSlantFromWeight(value) ==
    GetAttr(<<"FONT_WEIGHT", Upper(Format(value))>>, <<"FONT_SLANT", "NORMAL">>)

\* lines 80-82
FontSlant(value) ==
    GetAttr(<<"FONT_SLANT", Upper(Format(value))>>, <<"FONT_SLANT", "NORMAL">>)

\* lines 83-85
FontWeight(value) ==
    GetAttr(<<"FONT_WEIGHT", Upper(Format(value))>>, <<"FONT_WEIGHT", "NORMAL">>)

\* line 86
SelectFontFace(ctx, font_style, font_weight) ==
    [ctx EXCEPT !.font = [slant |-> font_style, weight |-> font_weight]]

\* line 118 without the test
NoTextNever(text) == FALSE

\* line 118: not node.text
NoText(text) == text = <<>>

\* lines 93-108: the lists as text builds them
ListOr(attribute, default) == IF attribute = <<>> THEN default ELSE attribute
RotateList(attribute) ==
    IF attribute = <<>> THEN <<0>> ELSE [k \in DOMAIN attribute |-> Radians(attribute[k])]

\* lines 110-116 without the left bearing
XAlignNoBearing(text_anchor, width, x_bearing) ==
    IF text_anchor = "middle" THEN width \div 2
    ELSE IF text_anchor = "end" THEN width
    ELSE 0

\* lines 110-116
XAlign(text_anchor, width, x_bearing) ==
    IF text_anchor = "middle" THEN width \div 2 + x_bearing
    ELSE IF text_anchor = "end" THEN width + x_bearing
    ELSE 0

\* helpers.zip_letters: for each letter, the next value of each list, or None
\* once the list is used up
NextOf(list, k) == IF k <= Len(list) THEN <<list[k]>> ELSE None
ZipLetters(xl, yl, dxl, dyl, rl, word) ==
    [k \in 1..Len(word) |->
        [x |-> NextOf(xl, k), y |-> NextOf(yl, k), dx |-> NextOf(dxl, k),
         dy |-> NextOf(dyl, k), r |-> NextOf(rl, k), letter |-> word[k]]]

\* "x = 0" in place of "x = surface.cursor_position[0]"
OrCursorZero(value, coordinate) == IF value = None THEN 0 ELSE value[1]
\* "r = 0" in place of "r = last_r"
OrLastRZero(value, last_r) == IF value = None THEN 0 ELSE value[1]

\* lines 125-134: what replaces a None
OrCursor(value, coordinate) == IF value = None THEN coordinate ELSE value[1]
OrZero(value) == IF value = None THEN 0 ELSE value[1]
OrLastR(value, last_r) == IF value = None THEN last_r ELSE value[1]

\* lines 135-137 without rel_move_to(-x_align, 0)
GlyphAnchorNoAlign(x, y, dx, dy, x_align) == <<x + dx, y + dy>>

\* lines 135-137: move_to(x + dx, y + dy), rel_move_to(-x_align, 0)
GlyphAnchor(x, y, dx, dy, x_align) == <<x + dx - x_align, y + dy>>

\* lines 141-145 without the last rel_move_to(x_align, 0)
NextCursorNoAlign(anchor, extents, x_align) ==
    <<anchor[1] + extents.x_advance, anchor[2] + extents.y_advance>>

\* lines 141-145: move_to(anchor), rel_move_to(advance), rel_move_to(x_align, 0)
NextCursor(anchor, extents, x_align) ==
    <<anchor[1] + extents.x_advance + x_align, anchor[2] + extents.y_advance>>

Snapshot == [cursor_position |-> cursor_position, total_width |-> total_width,
             context |-> context]

\* lines 72-122: up to the loop
TextCall(n) ==
    /\ pc = "idle"
    /\ runs < MaxTextRuns
    /\ runs' = runs + 1
    /\ node' = n
    /\ entry' = Snapshot
    /\ glyphs' = <<>>
    /\ queries' = <<>>
    /\ LET text_extents == TextExtents(n.text)
           x_align == XAlign(n.anchor, text_extents.width, text_extents.x_bearing)
           rotate == RotateList(n.rotate)
       IN  IF NoText(n.text)
           THEN /\ pc' = "done"
                /\ local' = None
                /\ i' = 0
           ELSE /\ pc' = "text"
                /\ local' = [x_align |-> x_align,
                             last_r |-> Last(rotate),
                             letters_positions |->
                                 ZipLetters(n.x, n.y, ListOr(n.dx, <<0>>),
                                            ListOr(n.dy, <<0>>), rotate, n.text)]
                /\ i' = 1
    /\ context' = SelectFontFace(context, FontSlant(n.font_style), FontWeight(n.font_weight))
    /\ UNCHANGED <<cursor_position, total_width, measure>>

\* lines 123-145: one iteration of the loop
TextGlyph ==
    /\ pc = "text"
    /\ LET p == local.letters_positions[i]
           x == OrCursor(p.x, cursor_position[1])
           y == OrCursor(p.y, cursor_position[2])
           dx == OrZero(p.dx)
           dy == OrZero(p.dy)
           r == OrLastR(p.r, local.last_r)
           anchor == GlyphAnchor(x, y, dx, dy, local.x_align)
           drawing == Rotate(Save(context), r)
           next == NextCursor(anchor, TextExtents(<<p.letter>>), local.x_align)
       IN  /\ glyphs' = Append(glyphs,
                  [letter |-> p.letter, anchor |-> anchor, rotation |-> r,
                   x |-> x, y |-> y, dx |-> dx, dy |-> dy,
                   matrix |-> drawing.matrix, cursor |-> next])
           /\ context' = Restore(drawing)
           /\ cursor_position' = next
    /\ i' = i + 1
    /\ pc' = IF i = Len(node.text) THEN "done" ELSE "text"
    /\ UNCHANGED <<total_width, node, local, queries, entry, runs, measure>>

\* the handler returns to the renderer: its locals are gone
Return ==
    /\ pc = "done"
    /\ pc' = "idle"
    /\ node' = None
    /\ local' = None
    /\ i' = 0
    /\ glyphs' = <<>>
    /\ queries' = <<>>
    /\ entry' = None
    /\ UNCHANGED <<surfaceVars, runs, measure>>

EntryCursors == {<<0, 0>>, <<5, 7>>}

InitSurface ==
    /\ cursor_position \in EntryCursors
    /\ total_width = 0
    /\ context = [stack |-> <<>>, matrix |-> <<>>, font |-> None]
    /\ pc = "idle"
    /\ node = None
    /\ local = None
    /\ i = 0
    /\ glyphs = <<>>
    /\ queries = <<>>
    /\ entry = None
    /\ runs = 0
    /\ measure = MeasureOff

NextText == (\E n \in TextNodes : TextCall(n)) \/ TextGlyph \/ Return

SpecText == InitSurface /\ [][NextText]_vars

(***************************************************************************)
(* text_path(surface, node).  The href is a sequence of its parts: <<>> is *)
(* an absent attribute (""), <<"#", id>> a reference, <<id>> a value       *)
(* without the leading "#".                                                *)
(***************************************************************************)
\* surface.paths, each path as copy_path_flat returns it once drawn
SurfacePaths ==
    [p1 |-> <<PathMoveTo(0, 0), PathLineTo(4, 0), PathLineTo(4, 4)>>,
     p2 |-> <<PathMoveTo(1, 1)>>]

\* the nodes drawn: every combination of attributes on the path p1; on the
\* path p2, and with a reference that names no path, the attributes that are
\* read before the handler ends
TextPathNodes ==
    [text : Texts,
     href : {<<"#", "p1">>},
     startOffset : {None, <<3>>, <<50, "%">>},
     letter_spacing : {None, <<1>>, <<-2>>},
     x : {None, <<3>>},
     y : {None, <<2>>},
     rotate : {None, <<10>>}]
    \cup
    [text : Texts,
     href : {<<"#", "p2">>},
     startOffset : {None, <<3>>},
     letter_spacing : {<<1>>},
     x : {<<3>>},
     y : {<<2>>},
     rotate : {None}]
    \cup
    [text : Texts,
     href : {<<>>, <<"p1">>, <<"#", "zz">>},
     startOffset : {<<3>>},
     letter_spacing : {<<1>>},
     x : {<<3>>},
     y : {<<2>>},
     rotate : {None}]

\* lines 153-161: the path the node names, or None
StartsWithHash(id_path) == Len(id_path) > 0 /\ id_path[1] = "#"
IdOf(id_path) == IF Len(id_path) < 2 THEN "" ELSE id_path[2]
\* lines 153-161 without the test of the leading "#"
ResolvedPathNoHashTest(n) ==
    IF Len(n.href) = 0 THEN None
    ELSE IF Last(n.href) \in DOMAIN SurfacePaths THEN <<SurfacePaths[Last(n.href)]>>
    ELSE None

ResolvedPath(n) ==
    IF ~StartsWithHash(n.href) THEN None
    ELSE IF IdOf(n.href) \in DOMAIN SurfacePaths THEN <<SurfacePaths[IdOf(n.href)]>>
    ELSE None

\* "surface.total_width = start_offset" in place of "+="
AddStartOffsetReset(width, start_offset) == start_offset

\* line 172
AddStartOffset(width, start_offset) == width + start_offset

\* lines 178-179 without the letter spacing
AddAdvanceNoSpacing(width, x_advance, letter_spacing) == width + x_advance

\* lines 178-179
AddAdvance(width, x_advance, letter_spacing) == width + x_advance + letter_spacing

\* lines 197-198
NominalCursor(n) == <<Size(n.x, "x"), Size(n.y, "y")>>

\* lines 148-175: up to the loop
TextPathCall(n) ==
    /\ pc = "idle"
    /\ runs < MaxRuns
    /\ runs' = runs + 1
    /\ node' = n
    /\ entry' = Snapshot
    /\ glyphs' = <<>>
    /\ IF ResolvedPath(n) = None
       THEN /\ pc' = "done"
            /\ local' = None
            /\ i' = 0
            /\ queries' = <<>>
            /\ UNCHANGED surfaceVars
       ELSE LET cairo_path == ResolvedPath(n)[1]
                start_offset == Size(n.startOffset, PathLength(cairo_path))
                width == AddStartOffset(total_width, start_offset)
                point == PointFollowingPath(cairo_path, width)
            IN  /\ context' = Save(context)
                /\ total_width' = width
                /\ queries' = <<[width |-> width, point |-> point]>>
                /\ UNCHANGED cursor_position
                /\ IF point = None
                   THEN \* "x, y = None" raises TypeError
                        /\ pc' = "fault"
                        /\ local' = [cairo_path |-> cairo_path]
                        /\ i' = 0
                   ELSE /\ pc' = "text_path"
                        /\ local' = [cairo_path |-> cairo_path,
                                     xy |-> point,
                                     letter_spacing |-> Size(n.letter_spacing, "xy")]
                        /\ i' = 1
    /\ UNCHANGED measure

\* line 180-184: whether the letter is drawn
IsDrawn(point_on_path) == point_on_path # None

\* lines 177-193: one iteration of the loop
TextPathGlyph ==
    /\ pc = "text_path"
    /\ i <= Len(node.text)
    /\ LET letter == node.text[i]
           width == AddAdvance(total_width, TextExtents(<<letter>>).x_advance,
                               local.letter_spacing)
           point_on_path == PointFollowingPath(local.cairo_path, width)
       IN  /\ total_width' = width
           /\ queries' = Append(queries, [width |-> width, point |-> point_on_path])
           /\ IF IsDrawn(point_on_path)
              THEN LET angle == PointAngle(local.xy[1], local.xy[2],
                                           point_on_path[1], point_on_path[2])
                       rotation == <<angle, FloatOr0(node.rotate)>>
                       drawing ==
                           Translate(
                               Rotate(
                                   Translate(Save(context), local.xy[1], local.xy[2]),
                                   rotation),
                               0, Size(node.y, "y"))
                   IN  /\ glyphs' = Append(glyphs,
                              [letter |-> letter, index |-> i, anchor |-> local.xy,
                               rotation |-> rotation, matrix |-> drawing.matrix,
                               before |-> total_width, to |-> point_on_path])
                       /\ context' = Restore(drawing)
                       /\ local' = [local EXCEPT !.xy = point_on_path]
              ELSE UNCHANGED <<glyphs, context, local>>
    /\ i' = i + 1
    /\ UNCHANGED <<cursor_position, pc, node, entry, runs, measure>>

\* lines 194-198: after the loop
TextPathFinish ==
    /\ pc = "text_path"
    /\ i > Len(node.text)
    /\ context' = Restore(context)
    /\ cursor_position' = NominalCursor(node)
    /\ pc' = "done"
    /\ UNCHANGED <<total_width, node, local, i, glyphs, queries, entry, runs, measure>>

NextTextPath ==
    \/ \E n \in TextPathNodes : TextPathCall(n)
    \/ TextPathGlyph
    \/ TextPathFinish
    \/ Return

InitTextPath == InitSurface /\ cursor_position = <<5, 7>>

SpecTextPath == InitTextPath /\ [][NextTextPath]_vars

(***************************************************************************)
(* Properties of text, over the glyphs of the running handler.             *)
(***************************************************************************)
InText == pc = "text" \/ (pc = "done" /\ node # None /\ "anchor" \in DOMAIN node)

\* the cursor a glyph of text is laid out from: the one stored after the
\* glyph before it, or the one the handler was entered with
CursorBefore(k) == IF k = 1 THEN entry.cursor_position ELSE glyphs[k - 1].cursor

\* C6: with lists of any lengths, letter k gets each list's k-th value when
\* the list has one; otherwise x and y are unspecified (None), dx and dy are 0,
\* and the rotation is the last value of the rotate list, or 0 without a
\* rotate list.
C6_ListsBroadcast ==
    (InText /\ local # None) =>
        \A k \in 1..Len(glyphs) :
            LET g == glyphs[k]
                p == local.letters_positions[k]
            IN  /\ g.letter = node.text[k]
                /\ IF k <= Len(node.x) THEN g.x = node.x[k] ELSE p.x = None
                /\ IF k <= Len(node.y) THEN g.y = node.y[k] ELSE p.y = None
                /\ g.dx = IF k <= Len(node.dx) THEN node.dx[k] ELSE 0
                /\ g.dy = IF k <= Len(node.dy) THEN node.dy[k] ELSE 0
                /\ g.rotation =
                       IF node.rotate = <<>> THEN 0
                       ELSE IF k <= Len(node.rotate) THEN Radians(node.rotate[k])
                       ELSE Radians(node.rotate[Len(node.rotate)])

\* C6 witness: three letters against lists of two values: the third letter
\* has no x, a dx of 0 and the rotation of the second
C6_Witness ==
    /\ pc = "done"
    /\ Len(glyphs) = 3
    /\ node.x = <<1, 5>> /\ node.dx = <<1, 2>> /\ node.rotate = <<10, 20>>
    /\ local.letters_positions[3].x = None
    /\ glyphs[3].dx = 0
    /\ glyphs[3].rotation = Radians(20)
    /\ glyphs[3].rotation # 20

\* C7: a letter without x (without y) is laid out from the x (the y) of the
\* cursor stored after the glyph before it, or of the cursor at entry for
\* the first letter, x and y apart from each other; its anchor is that
\* cursor coordinate plus its own dx (dy), less the alignment offset in x.
C7_UnspecifiedFromCursor ==
    (InText /\ local # None) =>
        /\ \A k \in 1..Len(glyphs) :
               LET g == glyphs[k]
               IN  /\ k > Len(node.x) =>
                          /\ g.x = CursorBefore(k)[1]
                          /\ g.anchor[1] = CursorBefore(k)[1] + g.dx - local.x_align
                   /\ k > Len(node.y) =>
                          /\ g.y = CursorBefore(k)[2]
                          /\ g.anchor[2] = CursorBefore(k)[2] + g.dy
        /\ Len(glyphs) > 0 => cursor_position = glyphs[Len(glyphs)].cursor

\* C7 witness: the last letter of three has neither x nor y, after glyphs
\* that moved the cursor, and x is given where y is not
C7_Witness ==
    /\ pc = "done"
    /\ Len(glyphs) = 3
    /\ node.x = <<1, 5>> /\ node.y = <<2>>
    /\ glyphs[2].x = 5 /\ glyphs[2].y = glyphs[1].cursor[2]
    /\ glyphs[3].x = glyphs[2].cursor[1]
    /\ glyphs[3].y = glyphs[2].cursor[2]
    /\ glyphs[2].cursor # entry.cursor_position

\* C8: the anchor of each glyph is (x + dx - x_align, y + dy), and the cursor
\* stored after it is the anchor plus the glyph's own advance plus
\* (x_align, 0); the cursor is stored after every glyph, in the order of the
\* letters.
C8_AnchorAndCursor ==
    (InText /\ local # None) =>
        /\ \A k \in 1..Len(glyphs) :
               LET g == glyphs[k]
                   e == LetterExtents(node.text[k])
               IN  /\ g.letter = node.text[k]
                   /\ g.anchor = <<g.x + g.dx - local.x_align, g.y + g.dy>>
                   /\ g.cursor = <<g.anchor[1] + e.x_advance + local.x_align,
                                   g.anchor[2] + e.y_advance>>
        /\ cursor_position =
               IF Len(glyphs) = 0 THEN entry.cursor_position
               ELSE glyphs[Len(glyphs)].cursor
        /\ Len(glyphs) = i - 1

\* C8 witness: a run aligned on its middle, two glyphs drawn
C8_Witness ==
    /\ pc = "text"
    /\ node.anchor = "middle"
    /\ local.x_align > 0
    /\ Len(glyphs) = 2
    /\ cursor_position = <<glyphs[2].anchor[1] + 4 + local.x_align, glyphs[2].anchor[2] + 1>>

(***************************************************************************)
(* Properties of text_path.  queries[1] is the initial query of a run on a *)
(* resolved path, queries[k + 1] the query of letter k.                    *)
(***************************************************************************)
InTextPath == node # None /\ "href" \in DOMAIN node

\* the reference names a path of the surface
NamesPath(n) == Len(n.href) = 2 /\ n.href[1] = "#" /\ n.href[2] \in {"p1", "p2"}

\* the letters whose query found no point
NoneLetters == {k \in 1..(Len(queries) - 1) : queries[k + 1].point = None}
FirstNoneLetter == CHOOSE k \in NoneLetters : \A j \in NoneLetters : k <= j

\* C1: when the initial query of a run on a resolved path finds no point,
\* the run draws nothing and ends normally.
C1_InitialNoneEndsNormally ==
    (InTextPath /\ Len(queries) > 0 /\ queries[1].point = None) =>
        (pc = "done" /\ glyphs = <<>>)

\* C2: when letter k is the first whose query finds no point, the run draws
\* exactly the k - 1 letters before it and none after it.
C2_TruncatedAtFirstNone ==
    (InTextPath /\ pc = "done" /\ NoneLetters # {}) =>
        /\ Len(glyphs) = FirstNoneLetter - 1
        /\ \A g \in 1..Len(glyphs) : glyphs[g].index < FirstNoneLetter

\* C3: when the reference is absent, has no leading "#" or names no path of
\* the surface, text_path draws nothing and leaves the cursor, total_width
\* and the depth of the context's stack as they were.
C3_UnresolvedIsNoOp ==
    (InTextPath /\ ~NamesPath(node)) =>
        /\ pc = "done"
        /\ glyphs = <<>>
        /\ queries = <<>>
        /\ cursor_position = entry.cursor_position
        /\ total_width = entry.total_width
        /\ Len(context.stack) = Len(entry.context.stack)
        /\ context = entry.context

\* C3 witness: a reference without "#" to an existing path, on a surface
\* whose total_width an earlier run has moved
C3_Witness ==
    /\ pc = "done"
    /\ InTextPath
    /\ node.href = <<"p1">>
    /\ node.startOffset = <<3>>
    /\ node.text # <<>>
    /\ entry.total_width > 0
    /\ total_width = entry.total_width

\* C9: after a run on a resolved path, each cursor coordinate is the node's
\* x (y) when the node has one, and is left as it was when it has none.
C9_CursorIsNominalIfPresent ==
    (InTextPath /\ pc = "done" /\ NamesPath(node)) =>
        /\ cursor_position[1] =
               IF node.x # None THEN node.x[1] ELSE entry.cursor_position[1]
        /\ cursor_position[2] =
               IF node.y # None THEN node.y[1] ELSE entry.cursor_position[2]

\* C10: total_width is carried from run to run: a run on a resolved path
\* adds its start offset to the value it finds and queries its initial point
\* there, each letter adds its advance and the letter spacing before its
\* query, and no other step changes total_width.
C10_TotalWidthAccumulates ==
    [][LET starts == pc = "idle" /\ pc' \in {"text_path", "fault"}
           letter == pc = "text_path" /\ i' = i + 1
       IN  /\ starts =>
                  LET path == SurfacePaths[node'.href[2]]
                  IN  /\ total_width' = total_width
                             + Size(node'.startOffset, LengthUpTo(path, Len(path)))
                      /\ queries' = <<[width |-> total_width',
                                       point |-> PointFollowingPath(path, total_width')]>>
           /\ letter =>
                  /\ total_width' = total_width + LetterExtents(node.text[i]).x_advance
                                        + Size(node.letter_spacing, "xy")
                  /\ queries' = Append(queries,
                         [width |-> total_width',
                          point |-> PointFollowingPath(local.cairo_path, total_width')])
           /\ (~starts /\ ~letter) => total_width' = total_width]_vars

\* C10 witness: a second run without a start offset draws its first glyph
\* where the first run stopped, not at the start of the path
C10_Witness ==
    /\ runs = 2
    /\ InTextPath
    /\ pc = "text_path"
    /\ node.startOffset = None
    /\ entry.total_width > 0
    /\ queries[1].width = entry.total_width
    /\ Len(glyphs) > 0
    /\ glyphs[1].anchor = PointFollowingPath(local.cairo_path, entry.total_width)
    /\ glyphs[1].anchor # <<0, 0>>

(***************************************************************************)
(* Properties of text: the guard, the alignment offset and the font.       *)
(***************************************************************************)
\* C11: a text element with empty text lays nothing out: no glyph is placed,
\* the context's stack and matrix are as they were, and the cursor is the
\* cursor of the call, whatever x, y, dx, dy, rotate and text-anchor are.
C11_EmptyTextNoLayout ==
    (InText /\ node.text = <<>>) =>
        /\ pc = "done"
        /\ glyphs = <<>>
        /\ local = None
        /\ cursor_position = entry.cursor_position
        /\ total_width = entry.total_width
        /\ context.stack = entry.context.stack
        /\ context.matrix = entry.context.matrix

\* C11 witness: an empty text with x, y, dx, dy, rotate and text-anchor end
\* has returned, with the cursor where it was
C11_Witness ==
    /\ pc = "done"
    /\ InText
    /\ node.text = <<>>
    /\ node.x # <<>> /\ node.y # <<>> /\ node.dx # <<>> /\ node.dy # <<>>
    /\ node.rotate # <<>>
    /\ node.anchor = "end"
    /\ entry.cursor_position = <<5, 7>>
    /\ cursor_position = <<5, 7>>

\* the offset the text-anchor asks for, from the extents of the whole string
AnchorOffset(n) ==
    LET e == TextExtents(n.text)
    IN  CASE n.anchor = "middle" -> e.width \div 2 + e.x_bearing
          [] n.anchor = "end" -> e.width + e.x_bearing
          [] OTHER -> 0

\* C12: the alignment offset of a run is 0 for start, for no text-anchor and
\* for any other value, width/2 + left bearing for middle and width + left
\* bearing for end, of the whole string (width 40 and bearing 2 give 22, 42
\* and 0); every glyph of the run is moved by that same offset.
C12_AlignmentOffset ==
    /\ XAlign("middle", 40, 2) = 22
    /\ XAlign("end", 40, 2) = 42
    /\ XAlign("start", 40, 2) = 0
    /\ XAlign("none", 40, 2) = 0
    /\ XAlign("justify", 40, 2) = 0
    /\ (InText /\ local # None) =>
           /\ local.x_align = AnchorOffset(node)
           /\ \A k \in 1..Len(glyphs) :
                  LET g == glyphs[k]
                  IN  /\ g.anchor[1] = g.x + g.dx - AnchorOffset(node)
                      /\ g.cursor[1] = g.anchor[1] + LetterExtents(g.letter).x_advance
                                           + AnchorOffset(node)

\* C12 witness: a run of three glyphs with text-anchor end on a string whose
\* first letter has a left bearing
C12_Witness ==
    /\ pc = "done"
    /\ InText
    /\ node.anchor = "end"
    /\ node.text = <<"b", "a", "b">>
    /\ local.x_align = 11
    /\ Len(glyphs) = 3
    /\ \A k \in 1..3 : glyphs[k].anchor[1] = glyphs[k].x + glyphs[k].dx - 11

\* C13: whatever font-style and font-weight are, absent and unknown keywords
\* included, text selects a font and goes on; a keyword that is no slant
\* (no weight) of cairo selects the normal slant (the normal weight).
C13_FontFallback ==
    InText =>
        /\ pc \in {"text", "done"}
        /\ context.font.slant =
               (CASE node.font_style = <<"italic">> -> <<"FONT_SLANT", "ITALIC">>
                  [] node.font_style = <<"Oblique">> -> <<"FONT_SLANT", "OBLIQUE">>
                  [] OTHER -> <<"FONT_SLANT", "NORMAL">>)
        /\ context.font.weight =
               (CASE node.font_weight = <<"bold">> -> <<"FONT_WEIGHT", "BOLD">>
                  [] OTHER -> <<"FONT_WEIGHT", "NORMAL">>)

\* C13 witness: an unknown font-style with a numeric font-weight, after a
\* glyph was drawn with the normal slant and weight
C13_Witness ==
    /\ pc = "done"
    /\ InText
    /\ node.font_style = <<"bogus">>
    /\ node.font_weight = <<"700">>
    /\ Len(glyphs) = 1
    /\ context.font = [slant |-> <<"FONT_SLANT", "NORMAL">>,
                       weight |-> <<"FONT_WEIGHT", "NORMAL">>]

(***************************************************************************)
(* Properties of the context's stack, of the anchors on a path and of the  *)
(* width a run on a path leaves.                                           *)
(***************************************************************************)
\* C14: every save of text and text_path is restored before the handler
\* ends, however it ends: the stack and the matrix after the call are those
\* before it, and between two glyphs the matrix is the matrix of the call.
C14_SavesRestored ==
    /\ (node # None /\ pc \in {"done", "fault"}) =>
           /\ context.stack = entry.context.stack
           /\ context.matrix = entry.context.matrix
    /\ pc = "text" =>
           /\ context.stack = entry.context.stack
           /\ context.matrix = entry.context.matrix
    /\ pc = "text_path" =>
           /\ context.stack = Append(entry.context.stack, entry.context.matrix)
           /\ context.matrix = entry.context.matrix

\* C15: every glyph drawn on a path is anchored at the point found at the
\* total_width there was before its own advance was added, and is turned
\* from that point to the point found for it.
C15_AnchorIsPointBeforeAdvance ==
    (InTextPath /\ local # None) =>
        \A k \in 1..Len(glyphs) :
            LET g == glyphs[k]
            IN  /\ g.anchor = PointFollowingPath(local.cairo_path, g.before)
                /\ g.rotation[1] =
                       PointAngle(g.anchor[1], g.anchor[2], g.to[1], g.to[2])

\* the sum of advance + letter-spacing over the first k letters
RECURSIVE SumAdvances(_, _, _)
SumAdvances(string, letter_spacing, k) ==
    IF k = 0 THEN 0
    ELSE SumAdvances(string, letter_spacing, k - 1)
             + LetterExtents(string[k]).x_advance + letter_spacing

\* start offset and letter spacing of the node are not negative
NonNegative(n) == Size(n.startOffset, 1) >= 0 /\ Size(n.letter_spacing, "xy") >= 0

\* C16: in a run on a resolved path whose initial point exists, total_width
\* is its value at the call plus the start offset plus advance +
\* letter-spacing of every letter handled so far, drawn or skipped (of all
\* letters when the run is over); with no negative start offset or spacing,
\* a run that starts on an exhausted path finds no point, a query that finds
\* no point is followed by none that finds one, and the run leaves the path
\* exhausted.
C16_TotalWidthSumsAllLetters ==
    (InTextPath /\ pc \in {"text_path", "done"} /\ local # None) =>
        LET path == local.cairo_path
            exhausted(width) == PointFollowingPath(path, width) = None
        IN  /\ i = Len(queries)
            /\ pc = "done" => i = Len(node.text) + 1
            /\ total_width = entry.total_width
                   + Size(node.startOffset, LengthUpTo(path, Len(path)))
                   + SumAdvances(node.text, Size(node.letter_spacing, "xy"), i - 1)
            /\ NonNegative(node) =>
                   /\ ~exhausted(entry.total_width)
                   /\ \A j, k \in 1..Len(queries) :
                          (j < k /\ queries[j].point = None) => queries[k].point = None
                   /\ NoneLetters # {} => exhausted(total_width)

\* C16 witness: a second run of three letters whose last two are skipped
\* has added the advance and spacing of all three and leaves the path
\* exhausted
C16_Witness ==
    /\ pc = "done"
    /\ InTextPath
    /\ runs = 2
    /\ entry.total_width > 0
    /\ node.startOffset = <<3>>
    /\ node.letter_spacing = <<1>>
    /\ Len(node.text) = 3
    /\ Len(glyphs) = 1
    /\ NoneLetters = {2, 3}
    /\ total_width = entry.total_width + 3 + SumAdvances(node.text, 1, 3)
    /\ PointFollowingPath(local.cairo_path, total_width) = None

(***************************************************************************)
(* The cursor of text does not depend on the text-anchor.                  *)
(***************************************************************************)
\* where glyph k would start, and the cursor it would leave, were there no
\* alignment: from the lists of the node, the advances and the cursor of the
\* call only
RECURSIVE UnalignedCursor(_)
UnalignedOrigin(k) ==
    LET before == IF k = 1 THEN entry.cursor_position ELSE UnalignedCursor(k - 1)
    IN  <<OrCursor(NextOf(node.x, k), before[1]) + OrZero(NextOf(ListOr(node.dx, <<0>>), k)),
          OrCursor(NextOf(node.y, k), before[2]) + OrZero(NextOf(ListOr(node.dy, <<0>>), k))>>
UnalignedCursor(k) ==
    <<UnalignedOrigin(k)[1] + LetterExtents(node.text[k]).x_advance,
      UnalignedOrigin(k)[2] + LetterExtents(node.text[k]).y_advance>>

\* C17: the cursor a run of text leaves is the one it would leave without
\* alignment, so it is the same for start, middle and end; the anchor of each
\* glyph is its unaligned origin moved left by the alignment offset.
C17_CursorIndependentOfAnchor ==
    (InText /\ local # None) =>
        /\ \A k \in 1..Len(glyphs) :
               /\ glyphs[k].cursor = UnalignedCursor(k)
               /\ glyphs[k].anchor =
                      <<UnalignedOrigin(k)[1] - AnchorOffset(node), UnalignedOrigin(k)[2]>>
        /\ Len(glyphs) > 0 => cursor_position = UnalignedCursor(Len(glyphs))

\* C17 witness: a run of three glyphs with text-anchor middle whose anchors
\* are moved by 6 ends on the unaligned cursor
C17_Witness ==
    /\ pc = "done"
    /\ InText
    /\ node.anchor = "middle"
    /\ node.text = <<"b", "a", "b">>
    /\ node.x = <<>>
    /\ node.dx = <<1, 2>>
    /\ local.x_align = 6
    /\ Len(glyphs) = 3
    /\ glyphs[1].anchor[1] = entry.cursor_position[1] + 1 - 6
    /\ cursor_position = UnalignedCursor(3)
    /\ cursor_position[1] = entry.cursor_position[1] + 3 + 9

====
